---- MODULE Spec2Model ----
(***************************************************************************)
(* LRU cache for range-sum queries over a mutable array (src/task01.py).   *)
(*                                                                         *)
(* An OrderedDict is a sequence of <<key, value>> pairs: position 1 is the *)
(* first (oldest) item, the last position is the end that move_to_end      *)
(* moves to.  A key is a pair <<left, right>>.  A Python list of length N  *)
(* is a sequence of length N; Python index i is position i + 1.            *)
(*                                                                         *)
(* Sliding-window rate limiter (src/task02.py).  time.time() is the        *)
(* integer clock now, which never goes back; a deque is a sequence whose   *)
(* position 1 is its left end; the dict user_requests is a function whose  *)
(* domain is the set of users it holds.                                    *)
(***************************************************************************)
EXTENDS Integers, Sequences, FiniteSets, TLC

VARIABLES
    array,       \* the list handed to range_sum_with_cache / update_with_cache
    lru_cache,   \* the LRUCache object: [cache |-> OrderedDict, capacity |-> int]
    touched,     \* history: the held keys, ordered by their last touch (oldest first)
    ret,         \* the last call: its name, arguments, outcome and what it removed
    now,         \* what time.time() returns
    limiter,     \* the SlidingWindowRateLimiter object
    accepted,    \* history: per user, the times of the accepted messages that are
                 \* at most window_size old
    release,     \* history: per user, when the window seen by the last rejection
                 \* frees a place (-1: no rejection since the last accepted message)
    lret         \* the last call on the limiter and what it returned

cache_vars == <<array, lru_cache, touched, ret>>
limiter_vars == <<now, limiter, accepted, release, lret>>
vars == <<array, lru_cache, touched, ret, now, limiter, accepted, release, lret>>

----------------------------------------------------------------------------
(* Bounds of the model *)

MaxN == 2          \* longest array
MaxVal == 1        \* array elements and put values range over -1 .. MaxVal
MaxCapacity == 2   \* largest capacity of a cache that serves an array
MaxOwnCapacity == 3  \* largest capacity of a cache driven on its own: room for
                     \* every key of CacheKeys

MaxTime == 3       \* the clock runs from 0 to MaxTime
MaxWindow == 1     \* largest window_size a limiter is built with
MaxRequests == 2   \* largest max_requests a limiter is built with

Vals == -1 .. MaxVal
Capacities == -1 .. MaxCapacity
OwnCapacities == -1 .. MaxOwnCapacity
Arrays == UNION {[1..n -> Vals] : n \in 1..MaxN}

\* intervals with 0 <= left <= right < n
ValidKeys(n) == {k \in (0..(n-1)) \X (0..(n-1)) : k[1] <= k[2]}
\* arguments a caller may pass to a store of n elements, inside and outside 0 .. n-1
AnyIndex(n) == (-(n + 1)) .. n
\* the keys the cache is driven with when it is used on its own
CacheKeys == ValidKeys(2)

----------------------------------------------------------------------------
(* collections.OrderedDict *)

KeysOf(od) == [i \in 1..Len(od) |-> od[i][1]]
KeySet(od) == {od[i][1] : i \in 1..Len(od)}
Contains(od, key) == key \in KeySet(od)
IndexOf(od, key) == CHOOSE i \in 1..Len(od) : od[i][1] = key
Lookup(od, key) == od[IndexOf(od, key)][2]
Without(od, key) == SelectSeq(od, LAMBDA e : e[1] # key)

\* od[key] = value: an existing key keeps its position, a new key goes to the end
SetItem(od, key, value) ==
    IF Contains(od, key)
    THEN [od EXCEPT ![IndexOf(od, key)] = <<key, value>>]
    ELSE Append(od, <<key, value>>)

\* od.move_to_end(key)
MoveToEnd(od, key) == Append(Without(od, key), <<key, Lookup(od, key)>>)

\* od.popitem(last=False)
PopFirst(od) == Tail(od)

\* del od[key]
DelItem(od, key) == Without(od, key)
\* del od[key] raises KeyError for a key od does not hold
DelItemRaises(od, key) == ~Contains(od, key)

----------------------------------------------------------------------------
(* Python list indexing and slicing *)

\* the start or stop of a slice, as list slicing clamps it
SliceBound(n, i) ==
    LET j == IF i < 0 THEN i + n ELSE i
    IN  IF j < 0 THEN 0 ELSE IF j > n THEN n ELSE j

RECURSIVE SumFrom(_, _, _)
\* arr[start] + ... + arr[stop - 1] for clamped 0 <= start, stop <= len(arr)
SumFrom(arr, start, stop) ==
    IF start >= stop THEN 0 ELSE arr[start + 1] + SumFrom(arr, start + 1, stop)

\* sum(arr[left : stop])
SliceSum(arr, left, stop) ==
    SumFrom(arr, SliceBound(Len(arr), left), SliceBound(Len(arr), stop))

\* arr[index] = value raises IndexError unless -len(arr) <= index < len(arr)
IndexOk(arr, index) == -Len(arr) <= index /\ index < Len(arr)
\* the position arr[index] names, negative indices counting from the end
Position(arr, index) == IF index < 0 THEN index + Len(arr) + 1 ELSE index + 1

----------------------------------------------------------------------------
(* class LRUCache *)

LRUCache(capacity) == [cache |-> <<>>, capacity |-> capacity]

\* get that rotates the whole dictionary until its key is the last one
LRUCache_get_Rotate(self, key) ==
    IF ~Contains(self.cache, key)
    THEN [self |-> self, ret |-> -1]
    ELSE LET i == IndexOf(self.cache, key)
             od == SubSeq(self.cache, i + 1, Len(self.cache))
                     \o SubSeq(self.cache, 1, i)
         IN  [self |-> [self EXCEPT !.cache = od], ret |-> Lookup(od, key)]

LRUCache_get(self, key) ==
    IF ~Contains(self.cache, key)
    THEN [self |-> self, ret |-> -1]
    ELSE LET od == MoveToEnd(self.cache, key)
         IN  [self |-> [self EXCEPT !.cache = od], ret |-> Lookup(od, key)]

\* put that never evicts
LRUCache_put_NoEvict(self, key, value) ==
    [self EXCEPT !.cache = MoveToEnd(SetItem(self.cache, key, value), key)]

\* put that evicts from the wrong end
LRUCache_put_PopLast(self, key, value) ==
    LET od == MoveToEnd(SetItem(self.cache, key, value), key)
    IN  IF Len(od) > self.capacity
        THEN [self EXCEPT !.cache = SubSeq(od, 1, Len(od) - 1)]
        ELSE [self EXCEPT !.cache = od]

\* put that tolerates one entry too many
LRUCache_put_OffByOne(self, key, value) ==
    LET od == MoveToEnd(SetItem(self.cache, key, value), key)
    IN  IF Len(od) > self.capacity + 1
        THEN [self EXCEPT !.cache = PopFirst(od)]
        ELSE [self EXCEPT !.cache = od]

\* put that evicts as soon as the cache is full
LRUCache_put_EvictFull(self, key, value) ==
    LET od == MoveToEnd(SetItem(self.cache, key, value), key)
    IN  IF Len(od) >= self.capacity
        THEN [self EXCEPT !.cache = PopFirst(od)]
        ELSE [self EXCEPT !.cache = od]

LRUCache_put(self, key, value) ==
    LET od == MoveToEnd(SetItem(self.cache, key, value), key)
    IN  IF Len(od) > self.capacity
        THEN [self EXCEPT !.cache = PopFirst(od)]
        ELSE [self EXCEPT !.cache = od]

LRUCache_get_keys(self) == KeysOf(self.cache)

\* delete that fills the slot of the deleted entry with the last entry
LRUCache_delete_SwapLast(self, key) ==
    IF Contains(self.cache, key)
    THEN LET i == IndexOf(self.cache, key)
             n == Len(self.cache)
         IN  [self |-> [self EXCEPT !.cache =
                           [j \in 1..(n - 1) |->
                               IF j = i THEN self.cache[n] ELSE self.cache[j]]],
              err |-> "none"]
    ELSE [self |-> self, err |-> "none"]

\* self: the cache after the call; err: the exception the call raises, if any
LRUCache_delete(self, key) ==
    IF Contains(self.cache, key)
    THEN IF DelItemRaises(self.cache, key)
         THEN [self |-> self, err |-> "KeyError"]
         ELSE [self |-> [self EXCEPT !.cache = DelItem(self.cache, key)],
               err |-> "none"]
    ELSE [self |-> self, err |-> "none"]

----------------------------------------------------------------------------
(* range_sum_with_cache, update_with_cache *)

\* range_sum that sums array[left : right], one element short
range_sum_with_cache_ShortSlice(arr, left, right, cache) ==
    LET got == LRUCache_get(cache, <<left, right>>)
    IN  IF got.ret # -1
        THEN [cache |-> got.self, ret |-> got.ret, summed |-> FALSE]
        ELSE LET actual_sum == SliceSum(arr, left, right)
             IN  [cache |-> LRUCache_put(got.self, <<left, right>>, actual_sum),
                  ret |-> actual_sum, summed |-> TRUE]

\* summed tells whether the call took the branch that sums the array and puts
range_sum_with_cache(arr, left, right, cache) ==
    LET key == <<left, right>>
        got == LRUCache_get(cache, key)
        cached_value == got.ret
    IN  IF cached_value # -1
        THEN [cache |-> got.self, ret |-> cached_value, summed |-> FALSE]
        ELSE LET actual_sum == SliceSum(arr, left, right + 1)
             IN  [cache |-> LRUCache_put(got.self, key, actual_sum),
                  ret |-> actual_sum, summed |-> TRUE]

RECURSIVE Invalidate(_, _, _)
\* the loop over keys_to_check: delete each key whose interval holds index
Invalidate(keys_to_check, index, cache) ==
    IF keys_to_check = <<>>
    THEN cache
    ELSE LET key == Head(keys_to_check)
             left == key[1]
             right == key[2]
         IN  Invalidate(Tail(keys_to_check), index,
                        IF left <= index /\ index <= right
                        THEN LRUCache_delete(cache, key).self
                        ELSE cache)

\* update that writes the array and leaves the cache alone
update_with_cache_NoInvalidate(arr, index, value, cache) ==
    IF ~IndexOk(arr, index)
    THEN [array |-> arr, cache |-> cache, err |-> "IndexError"]
    ELSE [array |-> [arr EXCEPT ![Position(arr, index)] = value],
          cache |-> cache, err |-> "none"]

\* update that empties the whole cache
update_with_cache_Clear(arr, index, value, cache) ==
    IF ~IndexOk(arr, index)
    THEN [array |-> arr, cache |-> cache, err |-> "IndexError"]
    ELSE [array |-> [arr EXCEPT ![Position(arr, index)] = value],
          cache |-> [cache EXCEPT !.cache = <<>>], err |-> "none"]

\* update that writes the element before the one asked for
update_with_cache_WrongSlot(arr, index, value, cache) ==
    IF ~IndexOk(arr, index)
    THEN [array |-> arr, cache |-> cache, err |-> "IndexError"]
    ELSE [array |-> [arr EXCEPT ![Position(arr, index - 1)] = value],
          cache |-> Invalidate(LRUCache_get_keys(cache), index, cache),
          err |-> "none"]

\* update that puts the entries it keeps back in the opposite order
update_with_cache_Reversed(arr, index, value, cache) ==
    IF ~IndexOk(arr, index)
    THEN [array |-> arr, cache |-> cache, err |-> "IndexError"]
    ELSE LET kept == Invalidate(LRUCache_get_keys(cache), index, cache).cache
         IN  [array |-> [arr EXCEPT ![Position(arr, index)] = value],
              cache |-> [cache EXCEPT !.cache =
                            [i \in 1..Len(kept) |-> kept[Len(kept) + 1 - i]]],
              err |-> "none"]

update_with_cache(arr, index, value, cache) ==
    IF ~IndexOk(arr, index)
    THEN [array |-> arr, cache |-> cache, err |-> "IndexError"]
    ELSE [array |-> [arr EXCEPT ![Position(arr, index)] = value],
          cache |-> Invalidate(LRUCache_get_keys(cache), index, cache),
          err |-> "none"]

----------------------------------------------------------------------------
(* History of touches: a get that finds the key and every put touch it *)

Touch(order, key) == Append(SelectSeq(order, LAMBDA k : k # key), key)
Held(order, od) == SelectSeq(order, LAMBDA k : Contains(od, k))

NoCall ==
    [op |-> "none", args |-> <<>>, val |-> 0, keys |-> <<>>, err |-> "none",
     hit |-> FALSE, removed |-> 0, summed |-> FALSE]

\* how many of the keys held before the call are gone after it
Removed(before, after) == Cardinality(KeySet(before.cache) \ KeySet(after.cache))

----------------------------------------------------------------------------
(* class SlidingWindowRateLimiter *)

DefaultWindowSize == 10
DefaultMaxRequests == 1

Users == {"1", "2"}

EmptyDict == [u \in {} |-> <<>>]
DictSet(d, k, v) == [x \in (DOMAIN d) \cup {k} |-> IF x = k THEN v ELSE d[x]]
DictDel(d, k) == [x \in (DOMAIN d) \ {k} |-> d[x]]

SlidingWindowRateLimiter(window_size, max_requests) ==
    [window_size |-> window_size, max_requests |-> max_requests,
     user_requests |-> EmptyDict]

RECURSIVE PopExpired(_, _)
\* while window and window[0] < window_start: window.popleft()
PopExpired(window, window_start) ==
    IF window # <<>> /\ Head(window) < window_start
    THEN PopExpired(Tail(window), window_start)
    ELSE window

\* cleanup that never pops
cleanup_window_NoPop(self, user_id, current_time) ==
    IF user_id \in DOMAIN self.user_requests /\ self.user_requests[user_id] = <<>>
    THEN [self EXCEPT !.user_requests = DictDel(self.user_requests, user_id)]
    ELSE self

\* _cleanup_window
cleanup_window(self, user_id, current_time) ==
    IF user_id \in DOMAIN self.user_requests
    THEN LET window_start == current_time - self.window_size
             window == PopExpired(self.user_requests[user_id], window_start)
         IN  IF window = <<>>
             THEN [self EXCEPT !.user_requests = DictDel(self.user_requests, user_id)]
             ELSE [self EXCEPT !.user_requests = DictSet(self.user_requests, user_id, window)]
    ELSE self

\* can_send_message that records the message it was asked about
can_send_message_Recording(self, user_id, current_time) ==
    LET cleaned == cleanup_window(self, user_id, current_time)
        window == IF user_id \in DOMAIN cleaned.user_requests
                  THEN cleaned.user_requests[user_id] ELSE <<>>
    IN  IF Len(window) < cleaned.max_requests
        THEN [self |-> [cleaned EXCEPT !.user_requests =
                            DictSet(cleaned.user_requests, user_id,
                                    Append(window, current_time))],
              ret |-> TRUE]
        ELSE [self |-> cleaned, ret |-> user_id \notin DOMAIN cleaned.user_requests]

can_send_message(self, user_id, current_time) ==
    LET cleaned == cleanup_window(self, user_id, current_time)
    IN  IF user_id \notin DOMAIN cleaned.user_requests
        THEN [self |-> cleaned, ret |-> TRUE]
        ELSE [self |-> cleaned,
              ret |-> Len(cleaned.user_requests[user_id]) < cleaned.max_requests]

\* record_message that accepts one message too many
record_message_AtMost(self, user_id, current_time) ==
    LET cleaned == cleanup_window(self, user_id, current_time)
        window == IF user_id \in DOMAIN cleaned.user_requests
                  THEN cleaned.user_requests[user_id] ELSE <<>>
    IN  IF Len(window) <= cleaned.max_requests
        THEN [self |-> [cleaned EXCEPT !.user_requests =
                            DictSet(cleaned.user_requests, user_id,
                                    Append(window, current_time))],
              ret |-> TRUE]
        ELSE [self |-> [cleaned EXCEPT !.user_requests =
                            DictSet(cleaned.user_requests, user_id, window)],
              ret |-> FALSE]

record_message(self, user_id, current_time) ==
    LET cleaned == cleanup_window(self, user_id, current_time)
        \* self.user_requests.setdefault(user_id, deque())
        window == IF user_id \in DOMAIN cleaned.user_requests
                  THEN cleaned.user_requests[user_id] ELSE <<>>
    IN  IF Len(window) < cleaned.max_requests
        THEN [self |-> [cleaned EXCEPT !.user_requests =
                            DictSet(cleaned.user_requests, user_id,
                                    Append(window, current_time))],
              ret |-> TRUE]
        ELSE [self |-> [cleaned EXCEPT !.user_requests =
                            DictSet(cleaned.user_requests, user_id, window)],
              ret |-> FALSE]

time_until_next_allowed(self, user_id, current_time) ==
    LET cleaned == cleanup_window(self, user_id, current_time)
    IN  IF user_id \notin DOMAIN cleaned.user_requests
        THEN [self |-> cleaned, ret |-> 0]
        ELSE LET window == cleaned.user_requests[user_id]
             IN  IF Len(window) < cleaned.max_requests
                 THEN [self |-> cleaned, ret |-> 0]
                 ELSE LET oldest_request_time == window[1]
                          expiry_time == oldest_request_time + cleaned.window_size
                          wait_time == expiry_time - current_time
                      IN  [self |-> cleaned,
                           ret |-> IF wait_time > 0 THEN wait_time ELSE 0]

\* due: the call came later than the release time of the user's last rejection
NoLimiterCall == [op |-> "none", user |-> "", ok |-> FALSE, wait |-> 0, due |-> FALSE]

\* a limiter nobody calls
LimiterIdle ==
    /\ now = 0
    /\ limiter = SlidingWindowRateLimiter(DefaultWindowSize, DefaultMaxRequests)
    /\ accepted = [u \in Users |-> <<>>]
    /\ release = [u \in Users |-> -1]
    /\ lret = NoLimiterCall

\* a cache nobody calls
CacheIdle ==
    /\ array = <<>>
    /\ lru_cache = LRUCache(1)
    /\ touched = <<>>
    /\ ret = NoCall

----------------------------------------------------------------------------
(* Initial states *)

\* a cache on its own, built with any capacity
InitCache ==
    /\ array = <<>>
    /\ \E capacity \in OwnCapacities : lru_cache = LRUCache(capacity)
    /\ touched = <<>>
    /\ ret = NoCall
    /\ LimiterIdle

\* an array and the cache that serves it
InitStore ==
    /\ array \in Arrays
    /\ \E capacity \in Capacities : lru_cache = LRUCache(capacity)
    /\ touched = <<>>
    /\ ret = NoCall
    /\ LimiterIdle

----------------------------------------------------------------------------
(* Calls on the cache *)

Get(key) ==
    LET got == LRUCache_get(lru_cache, key)
        hit == Contains(lru_cache.cache, key)
    IN  /\ lru_cache' = got.self
        /\ touched' = IF hit THEN Touch(touched, key) ELSE touched
        /\ ret' = [NoCall EXCEPT !.op = "get", !.args = <<key>>,
                                 !.val = got.ret, !.hit = hit]
        /\ UNCHANGED array
        /\ UNCHANGED limiter_vars

Put(key, value) ==
    LET after == LRUCache_put(lru_cache, key, value)
    IN  /\ lru_cache' = after
        /\ touched' = Held(Touch(touched, key), after.cache)
        /\ ret' = [NoCall EXCEPT !.op = "put", !.args = <<key, value>>,
                                 !.hit = Contains(lru_cache.cache, key),
                                 !.removed = Removed(lru_cache, after)]
        /\ UNCHANGED array
        /\ UNCHANGED limiter_vars

Delete(key) ==
    LET out == LRUCache_delete(lru_cache, key)
        after == out.self
    IN  /\ lru_cache' = after
        /\ touched' = Held(touched, after.cache)
        /\ ret' = [NoCall EXCEPT !.op = "delete", !.args = <<key>>,
                                 !.err = out.err,
                                 !.hit = Contains(lru_cache.cache, key),
                                 !.removed = Removed(lru_cache, after)]
        /\ UNCHANGED array
        /\ UNCHANGED limiter_vars

GetKeys ==
    /\ ret' = [NoCall EXCEPT !.op = "get_keys",
                             !.keys = LRUCache_get_keys(lru_cache)]
    /\ UNCHANGED <<array, lru_cache, touched>>
    /\ UNCHANGED limiter_vars

----------------------------------------------------------------------------
(* Calls on the store *)

RangeSum(left, right) ==
    LET out == range_sum_with_cache(array, left, right, lru_cache)
    IN  /\ lru_cache' = out.cache
        /\ touched' = Held(Touch(touched, <<left, right>>), out.cache.cache)
        /\ ret' = [NoCall EXCEPT !.op = "range_sum", !.args = <<left, right>>,
                                 !.val = out.ret, !.summed = out.summed,
                                 !.hit = Contains(lru_cache.cache, <<left, right>>),
                                 !.removed = Removed(lru_cache, out.cache)]
        /\ UNCHANGED array
        /\ UNCHANGED limiter_vars

Update(index, value) ==
    LET out == update_with_cache(array, index, value, lru_cache)
    IN  /\ array' = out.array
        /\ lru_cache' = out.cache
        /\ touched' = Held(touched, out.cache.cache)
        /\ ret' = [NoCall EXCEPT !.op = "update", !.args = <<index, value>>,
                                 !.err = out.err,
                                 !.removed = Removed(lru_cache, out.cache)]
        /\ UNCHANGED limiter_vars

----------------------------------------------------------------------------
(* Calls on the limiter; each reads the clock once, as the code does *)

CanSend(user_id) ==
    LET out == can_send_message(limiter, user_id, now)
    IN  /\ limiter' = out.self
        /\ lret' = [NoLimiterCall EXCEPT !.op = "can_send", !.user = user_id,
                                         !.ok = out.ret]
        /\ UNCHANGED <<now, accepted, release>>
        /\ UNCHANGED cache_vars

Record(user_id) ==
    LET out == record_message(limiter, user_id, now)
        window == out.self.user_requests[user_id]
    IN  /\ limiter' = out.self
        /\ lret' = [NoLimiterCall EXCEPT !.op = "record", !.user = user_id,
                                         !.ok = out.ret,
                                         !.due = (release[user_id] # -1
                                                  /\ now > release[user_id])]
        /\ accepted' = IF out.ret
                       THEN [accepted EXCEPT ![user_id] = Append(@, now)]
                       ELSE accepted
        /\ release' = [release EXCEPT ![user_id] =
                          IF out.ret \/ window = <<>>
                          THEN -1
                          ELSE window[1] + limiter.window_size]
        /\ UNCHANGED now
        /\ UNCHANGED cache_vars

TimeUntil(user_id) ==
    LET out == time_until_next_allowed(limiter, user_id, now)
    IN  /\ limiter' = out.self
        /\ lret' = [NoLimiterCall EXCEPT !.op = "time_until", !.user = user_id,
                                         !.wait = out.ret]
        /\ UNCHANGED <<now, accepted, release>>
        /\ UNCHANGED cache_vars

\* the clock advances between calls; the history drops what is too old to
\* lie in any window that ends from now on
Tick ==
    /\ now < MaxTime
    /\ now' = now + 1
    /\ accepted' = [u \in Users |->
                       SelectSeq(accepted[u],
                                 LAMBDA t : t >= now + 1 - limiter.window_size)]
    /\ UNCHANGED <<limiter, release, lret>>
    /\ UNCHANGED cache_vars

----------------------------------------------------------------------------
(* Specifications *)

CacheGet == \E key \in CacheKeys : Get(key)
CachePut == \E key \in CacheKeys, value \in Vals : Put(key, value)
CacheDelete == \E key \in CacheKeys : Delete(key)

\* the cache driven directly
NextCache == CacheGet \/ CachePut \/ CacheDelete \/ GetKeys
SpecCache == InitCache /\ [][NextCache]_vars

ValidRangeSum == \E key \in ValidKeys(Len(array)) : RangeSum(key[1], key[2])
ValidUpdate == \E index \in 0..(Len(array) - 1), value \in Vals : Update(index, value)

\* the store called with valid arguments only
Next == ValidRangeSum \/ ValidUpdate
Spec == InitStore /\ [][Next]_vars

AnyRangeSum == \E left \in AnyIndex(Len(array)), right \in AnyIndex(Len(array)) : RangeSum(left, right)
AnyUpdate == \E index \in AnyIndex(Len(array)), value \in Vals : Update(index, value)

\* an array of full length and a cache of one entry, for calls with any arguments
InitAny ==
    /\ array \in [1..MaxN -> Vals]
    /\ lru_cache = LRUCache(1)
    /\ touched = <<>>
    /\ ret = NoCall
    /\ LimiterIdle

\* the store called with any arguments
NextAny == AnyRangeSum \/ AnyUpdate
SpecAny == InitAny /\ [][NextAny]_vars

\* an array one element longer than MaxN, so that two cached intervals can
\* both lie clear of a written index, and a cache of the largest capacity
InitWide ==
    /\ array = [i \in 1..(MaxN + 1) |-> 0]
    /\ lru_cache = LRUCache(MaxCapacity)
    /\ touched = <<>>
    /\ ret = NoCall
    /\ LimiterIdle

WideRangeSum == \E key \in ValidKeys(Len(array)) : RangeSum(key[1], key[2])
\* the writes keep to two values: the order of the entries is what is at stake
WideUpdate == \E index \in 0..(Len(array) - 1), value \in {-1, 0} : Update(index, value)

\* the longer store called with valid arguments
NextWide == WideRangeSum \/ WideUpdate
SpecWide == InitWide /\ [][NextWide]_vars

\* a limiter built with any window_size >= 1 and max_requests >= 0
InitLimiter ==
    /\ now = 0
    /\ \E window_size \in 1..MaxWindow, max_requests \in 0..MaxRequests :
          limiter = SlidingWindowRateLimiter(window_size, max_requests)
    /\ accepted = [u \in Users |-> <<>>]
    /\ release = [u \in Users |-> -1]
    /\ lret = NoLimiterCall
    /\ CacheIdle

LimiterCanSend == \E user_id \in Users : CanSend(user_id)
LimiterRecord == \E user_id \in Users : Record(user_id)
LimiterTimeUntil == \E user_id \in Users : TimeUntil(user_id)

\* the limiter called by two users while the clock runs
NextLimiter == LimiterCanSend \/ LimiterRecord \/ LimiterTimeUntil \/ Tick
SpecLimiter == InitLimiter /\ [][NextLimiter]_vars

----------------------------------------------------------------------------
(* What the claims are stated with *)

RECURSIVE TrueSum(_, _, _)
\* array[l] + ... + array[r] of the list as it stands, for 0 <= l, r < len(arr)
TrueSum(arr, l, r) == IF r < l THEN 0 ELSE TrueSum(arr, l, r - 1) + arr[r + 1]

ValidRange(n, left, right) == 0 <= left /\ left <= right /\ right < n
ValidIndex(n, index) == 0 <= index /\ index < n
Overlaps(key, index) == key[1] <= index /\ index <= key[2]
LastOf(od) == od[Len(od)]

----------------------------------------------------------------------------
(* Claims about the store called with valid arguments (Spec) *)

\* C1: with capacity >= 1 and valid arguments, every value range_sum_with_cache
\* returns is the sum of array[left..right] as the array stands at that call,
\* whether it came from the cache or from a fresh summation.
C1_ReturnedSumIsTrue ==
    (lru_cache.capacity >= 1 /\ ret.op = "range_sum")
        => ret.val = TrueSum(array, ret.args[1], ret.args[2])

\* a query answered while its key was cached, a later write having changed the array
C1_Witness ==
    /\ lru_cache.capacity >= 1
    /\ ret.op = "range_sum" /\ ret.hit /\ ret.val = -1
    /\ Len(lru_cache.cache) = 2

\* C2: after every completed call, every cached key (l, r) maps to the sum of
\* the current array[l..r]: no entry survives a write inside its interval.
C2_CacheCoherent ==
    \A i \in 1..Len(lru_cache.cache) :
        LET key == lru_cache.cache[i][1]
        IN  lru_cache.cache[i][2] = TrueSum(array, key[1], key[2])

\* an update that invalidated two entries at once
C2_Witness == ret.op = "update" /\ ret.removed = 2

\* C5: update_with_cache(index, v) removes every cached key containing index,
\* keeps every other cached key with its value, and adds no key.
C5_InvalidationPrecise ==
    [][ret'.op = "update" =>
        LET index == ret'.args[1]
            before == lru_cache.cache
            after == lru_cache'.cache
        IN  /\ \A i \in 1..Len(before) :
                 IF Overlaps(before[i][1], index)
                 THEN ~Contains(after, before[i][1])
                 ELSE \E j \in 1..Len(after) : after[j] = before[i]
            /\ KeySet(after) \subseteq KeySet(before)]_vars

\* an update that removed one entry and left another
C5_Witness ==
    ret.op = "update" /\ ret.removed = 1 /\ Len(lru_cache.cache) = 1

----------------------------------------------------------------------------
(* Claims about the store called with any arguments (SpecAny) *)

\* C6: range_sum with left > right, or an index outside [0, N), fails with an
\* OutOfRange error and leaves the cache and the array unchanged.
C6_InvalidRangeRejected ==
    [][(ret'.op = "range_sum" /\ ~ValidRange(Len(array), ret'.args[1], ret'.args[2]))
        => (ret'.err = "OutOfRange" /\ lru_cache' = lru_cache /\ array' = array)]_vars

\* C7: update with an index outside [0, N), negative indices included, fails
\* with an error and mutates neither the array nor the cache.
C7_InvalidUpdateRejected ==
    [][(ret'.op = "update" /\ ~ValidIndex(Len(array), ret'.args[1]))
        => (ret'.err # "none" /\ lru_cache' = lru_cache /\ array' = array)]_vars

----------------------------------------------------------------------------
(* Claims about the cache on its own (SpecCache) *)

\* C3: with capacity >= 1, when a put overflows the capacity the entry evicted
\* is the one whose last touch (a get that found it, or a put) is the oldest
\* among the entries held at that moment.
C3_EvictsLeastRecentlyTouched ==
    [][(ret'.op = "put" /\ lru_cache.capacity >= 1
        /\ Cardinality(KeySet(lru_cache.cache) \cup {ret'.args[1]}) > lru_cache.capacity)
        => LET key == ret'.args[1]
               oldest == Head(Touch(touched, key))
           IN  /\ oldest # key
               /\ KeySet(lru_cache'.cache) = (KeySet(lru_cache.cache) \cup {key}) \ {oldest}]_vars

\* capacity 2: the put of a third key evicted one entry and left the other two
C3_Witness ==
    /\ lru_cache.capacity = 2
    /\ ret.op = "put" /\ ~ret.hit /\ ret.removed = 1
    /\ touched = KeysOf(lru_cache.cache)

\* C4: with capacity >= 1 the number of entries never exceeds capacity and no
\* key is held twice.
C4_SizeBoundedKeysUnique ==
    lru_cache.capacity >= 1 =>
        /\ Len(lru_cache.cache) <= lru_cache.capacity
        /\ \A i, j \in 1..Len(lru_cache.cache) :
             lru_cache.cache[i][1] = lru_cache.cache[j][1] => i = j

\* a full cache after a put
C4_Witness ==
    /\ lru_cache.capacity >= 1
    /\ ret.op = "put"
    /\ Len(lru_cache.cache) = lru_cache.capacity

\* C8 as stated: no cache with capacity < 1 ever exists.
C8_CapacityAtLeastOne == lru_cache.capacity >= 1

\* C8 as amended: a cache built with capacity < 1 is accepted and never holds
\* an entry: every put is followed at once by the eviction of what it inserted.
C8_DisabledCacheStaysEmpty ==
    lru_cache.capacity < 1 => (lru_cache.cache = <<>> /\ ret.err = "none")

\* a put on a cache of capacity < 1
C8_Witness == lru_cache.capacity < 1 /\ ret.op = "put"

\* C9: get on a present key returns the stored value, moves the key to the
\* most-recently-used end and changes no value, no key set and no relative
\* order of the others; on an absent key it reports absence (-1) and changes
\* nothing.
C9_GetFrame ==
    [][ret'.op = "get" =>
        LET key == ret'.args[1]
            before == lru_cache.cache
            after == lru_cache'.cache
        IN  IF Contains(before, key)
            THEN /\ ret'.val = Lookup(before, key)
                 /\ Len(after) = Len(before)
                 /\ LastOf(after) = <<key, Lookup(before, key)>>
                 /\ Without(after, key) = Without(before, key)
                 /\ lru_cache'.capacity = lru_cache.capacity
            ELSE /\ ret'.val = -1
                 /\ lru_cache' = lru_cache]_vars

\* a get that found its key among three entries: two others keep their order
C9_Witness == ret.op = "get" /\ ret.hit /\ Len(lru_cache.cache) = 3

\* C10: put on a held key replaces its value, makes it most-recently-used,
\* keeps the count and evicts nothing, also when the cache is full; put of a
\* new key removes at most one other entry, and only when the count would
\* exceed capacity.
C10_PutFrame ==
    [][ret'.op = "put" =>
        LET key == ret'.args[1]
            value == ret'.args[2]
            before == lru_cache.cache
            after == lru_cache'.cache
            gone == KeySet(before) \ KeySet(after)
        IN  IF Contains(before, key)
            THEN /\ Len(after) = Len(before)
                 /\ KeySet(after) = KeySet(before)
                 /\ LastOf(after) = <<key, value>>
                 /\ Without(after, key) = Without(before, key)
            ELSE /\ Cardinality(gone) <= 1
                 /\ gone # {} => Len(before) + 1 > lru_cache.capacity]_vars

\* a put on a key already held by a full cache of two entries
C10_Witness ==
    /\ ret.op = "put" /\ ret.hit
    /\ lru_cache.capacity = 2 /\ Len(lru_cache.cache) = 2

\* C11: delete is idempotent and total: a second delete(key) changes nothing,
\* deleting an absent key raises nothing and changes nothing, and deleting a
\* present key removes only that key and keeps the order of the rest.
C11_DeleteIdempotent ==
    [][ret'.op = "delete" =>
        LET key == ret'.args[1]
            before == lru_cache.cache
            after == lru_cache'.cache
        IN  /\ ret'.err = "none"
            /\ LRUCache_delete(lru_cache', key).self = lru_cache'
            /\ LRUCache_delete(lru_cache', key).err = "none"
            /\ lru_cache'.capacity = lru_cache.capacity
            /\ IF key \in KeySet(before)
               THEN /\ KeySet(after) = KeySet(before) \ {key}
                    /\ Len(after) = Len(before) - 1
                    /\ \A i \in 1..Len(after) :
                         after[i] = before[IF i < IndexOf(before, key) THEN i ELSE i + 1]
               ELSE after = before]_vars

\* a delete that removed one of three entries: two are left, in their order
C11_Witness ==
    /\ ret.op = "delete" /\ ret.hit /\ ret.removed = 1
    /\ Len(lru_cache.cache) = 2 /\ touched = KeysOf(lru_cache.cache)
    /\ lru_cache.capacity = 3

\* C12: with capacity >= 1, right after put(k, v) a get(k) returns v, for
\* every key and every value (-1 included).
C12_PutThenGet ==
    (lru_cache.capacity >= 1 /\ ret.op = "put")
        => LRUCache_get(lru_cache, ret.args[1]).ret = ret.args[2]

\* a put of the value -1, the value get also returns for an absent key, that
\* evicted another entry
C12_Witness ==
    /\ lru_cache.capacity >= 1
    /\ ret.op = "put" /\ ret.removed = 1 /\ ret.args[2] = -1

----------------------------------------------------------------------------
(* Further claims about the store called with valid arguments (Spec) *)

\* C13: range_sum_with_cache sums the array and puts exactly when the key is
\* absent from the cache; when the key is present, whatever value is stored
\* (-1 included), the stored value is returned without a new summation and the
\* only change to the cache is the promotion of that key.
C13_SumsExactlyOnMiss ==
    [][ret'.op = "range_sum" =>
        LET key == <<ret'.args[1], ret'.args[2]>>
            before == lru_cache.cache
        IN  IF key \in KeySet(before)
            THEN /\ ~ret'.summed
                 /\ ret'.val = Lookup(before, key)
                 /\ Without(lru_cache'.cache, key) = Without(before, key)
                 /\ LastOf(lru_cache'.cache) = <<key, Lookup(before, key)>>
            ELSE ret'.summed]_vars

\* C15: with valid arguments range_sum_with_cache changes no element of the
\* array, update_with_cache(index, value) changes exactly array[index], to
\* value, and no call changes the length of the array.
C15_ArrayFrame ==
    [][/\ ret'.op = "range_sum" => array' = array
       /\ ret'.op = "update" =>
            /\ ret'.err = "none"
            /\ Len(array') = Len(array)
            /\ \A i \in 1..Len(array) :
                 array'[i] = IF i = ret'.args[1] + 1 THEN ret'.args[2] ELSE array[i]]_vars

\* an update that wrote the second of two elements, the first keeping another value
C15_Witness ==
    /\ ret.op = "update" /\ ret.args[1] = 1
    /\ Len(array) = 2 /\ array[2] = ret.args[2] /\ array[1] # array[2]

----------------------------------------------------------------------------
(* Claims about the longer store (SpecWide) *)

\* C14: update_with_cache(index, v) keeps the recency position of every
\* surviving entry: of two cached keys that do not contain index, the one less
\* recently used before the update is still the less recently used after it,
\* and the oldest survivor is the next to be evicted.
C14_UpdateKeepsRecency ==
    [][ret'.op = "update" =>
        LET index == ret'.args[1]
            before == lru_cache.cache
            after == lru_cache'.cache
            clear(i) == ~Overlaps(before[i][1], index)
        IN  /\ \A i, j \in 1..Len(before) :
                 (i < j /\ clear(i) /\ clear(j)) =>
                    \E a, b \in 1..Len(after) :
                        a < b /\ after[a] = before[i] /\ after[b] = before[j]
            /\ \A i \in 1..Len(before) :
                 (clear(i) /\ \A h \in 1..(i - 1) : ~clear(h)) => Head(after) = before[i]]_vars

\* an update between two cached intervals: both are still cached
C14_Witness ==
    /\ ret.op = "update" /\ ret.args[1] = 1
    /\ KeysOf(lru_cache.cache) = << <<2, 2>>, <<0, 0>> >>

----------------------------------------------------------------------------
(* Claims about the rate limiter (SpecLimiter) *)

\* how many of the times in stamps lie in the closed interval [from, to]
CountIn(stamps, from, to) ==
    Cardinality({i \in 1..Len(stamps) : from <= stamps[i] /\ stamps[i] <= to})

\* the window user_requests holds for a user, or that it holds none
Entry(self, user_id) ==
    IF user_id \in DOMAIN self.user_requests
    THEN <<"window", self.user_requests[user_id]>>
    ELSE <<"absent">>

\* the clock values of later calls: those the clock still reaches, up to the
\* one at which every timestamp taken so far has expired (from there on
\* nothing changes any more)
LaterTimes ==
    LET expired == now + limiter.window_size + 1
    IN  now .. (IF expired < MaxTime THEN expired ELSE MaxTime)

\* the three calls give the same answers and leave the same window for the
\* user, whether made on one limiter or on the other
SameAnswers(one, other, user_id, t) ==
    LET Answers(self) ==
            LET r == record_message(self, user_id, t)
                c == can_send_message(self, user_id, t)
                w == time_until_next_allowed(self, user_id, t)
            IN  <<r.ret, Entry(r.self, user_id), c.ret, Entry(c.self, user_id),
                  w.ret, Entry(w.self, user_id)>>
    IN  Answers(one) = Answers(other)

\* C16: for every user and every instant t, at most max_requests messages of
\* that user were accepted with a timestamp in [t - window_size, t].  (The
\* history holds every accepted timestamp of [now - window_size, now]; the
\* windows that end at now or later lie in it, those that ended earlier were
\* looked at when the clock stood there.)
C16_LimitEnforced ==
    \A u \in Users : \A t \in now..(now + limiter.window_size) :
        CountIn(accepted[u], t - limiter.window_size, t) <= limiter.max_requests

\* a user at a limit of two, turned away
C16_Witness ==
    /\ limiter.max_requests = 2
    /\ lret.op = "record" /\ ~lret.ok
    /\ CountIn(accepted[lret.user], now - limiter.window_size, now) = 2

\* C17: with max_requests >= 0 and window_size >= 1, can_send_message(user) is
\* True exactly when record_message(user) at the same clock time would accept.
C17_CanSendAgreesWithRecord ==
    (limiter.max_requests >= 0 /\ limiter.window_size >= 1) =>
        \A u \in Users :
            can_send_message(limiter, u, now).ret = record_message(limiter, u, now).ret

\* C18: time_until_next_allowed(user) is 0 if and only if can_send_message(user)
\* at the same time is True, also when the oldest timestamp is exactly
\* window_size old.
C18_WaitZeroIffCanSend ==
    \A u \in Users :
        (time_until_next_allowed(limiter, u, now).ret = 0)
            <=> can_send_message(limiter, u, now).ret

\* C19: with max_requests >= 1, a record_message made later than the release
\* time of the user's last rejection (oldest timestamp then in the window +
\* window_size), no message of the user accepted since, is accepted; and a
\* user whose last accepted message is more than window_size old, or who has
\* none, is accepted.  (The clock stands still in the step of a call: a tick
\* leaves lret as it was, so lret alone does not tell a call from a tick.)
C19_NotBlockedForever ==
    [][(lret'.op = "record" /\ now' = now /\ limiter.max_requests >= 1) =>
        LET u == lret'.user
        IN  /\ (release[u] # -1 /\ now > release[u]) => lret'.ok
            /\ CountIn(accepted[u], now - limiter.window_size, now) = 0 => lret'.ok]_vars

\* a user turned away earlier and accepted again, at a limit of one
C19_Witness ==
    /\ limiter.max_requests = 1
    /\ lret.op = "record" /\ lret.due /\ lret.ok

\* C20: can_send_message and time_until_next_allowed add no timestamp and
\* change no later result of any call, and a call for one user changes neither
\* the timestamps nor any later result of another user.
C20_QueriesFreeUsersApart ==
    [][(lret'.op \in {"can_send", "time_until", "record"} /\ now' = now) =>
        LET u == lret'.user
        IN  /\ limiter'.window_size = limiter.window_size
            /\ limiter'.max_requests = limiter.max_requests
            /\ \A v \in Users \ {u} :
                 /\ Entry(limiter', v) = Entry(limiter, v)
                 /\ \A t \in LaterTimes : SameAnswers(limiter', limiter, v, t)
            /\ lret'.op # "record" =>
                 /\ \A t \in LaterTimes : SameAnswers(limiter', limiter, u, t)
                 /\ u \in DOMAIN limiter'.user_requests =>
                      /\ u \in DOMAIN limiter.user_requests
                      /\ \E k \in 0..Len(limiter.user_requests[u]) :
                           limiter'.user_requests[u]
                             = SubSeq(limiter.user_requests[u], k + 1,
                                      Len(limiter.user_requests[u]))]_vars

\* a query that dropped the expired window of its user while the other user
\* still has timestamps
C20_Witness ==
    /\ lret.op \in {"can_send", "time_until"}
    /\ release[lret.user] # -1
    /\ lret.user \notin DOMAIN limiter.user_requests
    /\ \E v \in Users : v \in DOMAIN limiter.user_requests

====
